---- MODULE Spec2Model ----
(***************************************************************************)
(* wfmserver SCPI control plane (src/wfmserver/ScpiServerThread.cpp).      *)
(*                                                                         *)
(* Text is a sequence of one-character strings.  Times are carried in a    *)
(* unit of 10^6 fs so that FS_PER_SECOND and every product of the trigger  *)
(* delay arithmetic fit TLC's 32-bit integers; rates stay in Hz.           *)
(*                                                                         *)
(* Spec follows a connection whose device accepts every call; SpecFault    *)
(* lets device calls and reply writes fail and draws malformed lines and   *)
(* queries; SpecParse runs ParseScpiLine alone on every short line.        *)
(***************************************************************************)
EXTENDS Integers, Sequences, FiniteSets, TLC

(***************************************************************************)
(* Bounds and program constants                                            *)
(***************************************************************************)
\* number of analog input channels reported by the device at start-up
g_numAnalogInChannels == 2

\* FS_PER_SECOND of the source, in the model's time unit (10^6 fs)
FS_PER_SECOND == 1000000000

(***************************************************************************)
(* Characters                                                              *)
(***************************************************************************)
Digits == {"0", "1", "2", "3", "4", "5", "6", "7", "8", "9"}

isdigit(c) == c \in Digits

isspace(c) == c \in {" ", "\t", "\n", "\r", "\f"}

DigitVal(c) ==
    CASE c = "0" -> 0 [] c = "1" -> 1 [] c = "2" -> 2 [] c = "3" -> 3
      [] c = "4" -> 4 [] c = "5" -> 5 [] c = "6" -> 6 [] c = "7" -> 7
      [] c = "8" -> 8 [] c = "9" -> 9

\* character code of the characters a TRIG:SOU argument is made of;
\* Ord of the terminating NUL (index past the end of a std::string) is 0
Ord(c) ==
    IF isdigit(c) THEN 48 + DigitVal(c)
    ELSE CASE c = "C" -> 67 [] c = "c" -> 99 [] c = "X" -> 88 [] OTHER -> 0

\* s[i] of a std::string, 0-based: the NUL terminator at i = length
CharAt(s, i) == IF i + 1 <= Len(s) THEN s[i + 1] ELSE "NUL"

toupper(c) == IF c = "c" THEN "C" ELSE c

(***************************************************************************)
(* ParseScpiLine                                                           *)
(***************************************************************************)
ParseReset ==
    [subject |-> <<>>, cmd |-> <<>>, query |-> FALSE, args |-> <<>>,
     tmp |-> <<>>, reading_cmd |-> TRUE]

\* one iteration of the for loop over line[i]
ParseChar(st, c) ==
    IF c = ":" /\ st.subject = <<>>
    THEN [st EXCEPT !.subject = st.tmp, !.tmp = <<>>]
    ELSE IF c = "?"
    THEN [st EXCEPT !.query = TRUE]
    ELSE IF ~(isspace(c) /\ st.cmd = <<>>) /\ c # ","
    THEN [st EXCEPT !.tmp = Append(st.tmp, c)]
    ELSE IF st.tmp = <<>>
    THEN st
    ELSE IF st.reading_cmd
    THEN [st EXCEPT !.cmd = st.tmp, !.reading_cmd = FALSE, !.tmp = <<>>]
    ELSE [st EXCEPT !.args = Append(st.args, st.tmp),
                    !.reading_cmd = FALSE, !.tmp = <<>>]

RECURSIVE ParseLoop(_, _, _)
ParseLoop(line, i, st) ==
    IF i > Len(line) THEN st
    ELSE ParseLoop(line, i + 1, ParseChar(st, line[i]))

\* stuff left over at the end
ParseTail(st) ==
    IF st.tmp # <<>>
    THEN IF st.cmd # <<>>
         THEN [st EXCEPT !.args = Append(st.args, st.tmp)]
         ELSE [st EXCEPT !.cmd = st.tmp]
    ELSE st

ParseScpiLine(line) ==
    LET st == ParseTail(ParseLoop(line, 1, ParseReset))
    IN  [subject |-> st.subject, cmd |-> st.cmd,
         query |-> st.query, args |-> st.args]

\* the caller's subject, cmd, query and args before any call
NoOutputs == [subject |-> <<>>, cmd |-> <<>>, query |-> FALSE, args |-> <<>>]

\* "Reset fields" that leaves args as the caller passed it
ResetFields_KeepArgs(o) ==
    [subject |-> <<>>, cmd |-> <<>>, query |-> FALSE, args |-> o.args,
     tmp |-> <<>>, reading_cmd |-> TRUE]

\* lines 534-540: the four outputs, passed by reference with what the last
\* call left in them, are reset; tmp and reading_cmd are fresh locals
ResetFields(o) ==
    [subject |-> <<>>, cmd |-> <<>>, query |-> FALSE, args |-> <<>>,
     tmp |-> <<>>, reading_cmd |-> TRUE]

\* ParseScpiLine(line, subject, cmd, query, args) on the caller's variables o
ParseScpiLineInto(o, line) ==
    LET st == ParseTail(ParseLoop(line, 1, ResetFields(o)))
    IN  [subject |-> st.subject, cmd |-> st.cmd,
         query |-> st.query, args |-> st.args]

(***************************************************************************)
(* Numeric conversions: std::stoi, std::stoull, std::stod                  *)
(***************************************************************************)
RECURSIVE SkipSpace(_, _)
SkipSpace(s, i) ==
    IF i <= Len(s) /\ isspace(s[i]) THEN SkipSpace(s, i + 1) ELSE i

\* leading digits of s from position i: how many, their value, and whether
\* the value left the 32-bit range the model computes in
RECURSIVE AccDigits(_, _, _)
AccDigits(s, i, acc) ==
    IF i <= Len(s) /\ isdigit(s[i])
    THEN IF acc.over \/ acc.val > 214748363
         THEN AccDigits(s, i + 1, [acc EXCEPT !.n = acc.n + 1, !.over = TRUE,
                                              !.next = i + 1])
         ELSE AccDigits(s, i + 1,
                        [n |-> acc.n + 1, over |-> FALSE, next |-> i + 1,
                         val |-> acc.val * 10 + DigitVal(s[i])])
    ELSE acc

NoDigits(j) == [n |-> 0, val |-> 0, over |-> FALSE, next |-> j]

\* result of a conversion: ok = FALSE stands for the exception thrown
\* (std::invalid_argument when no digit was read, std::out_of_range)
Conv(ok, val) == [ok |-> ok, val |-> val]

\* stoi(s): optional white space, optional sign, decimal digits
stoi(s) ==
    LET i    == SkipSpace(s, 1)
        neg  == i <= Len(s) /\ s[i] = "-"
        j    == IF i <= Len(s) /\ s[i] \in {"+", "-"} THEN i + 1 ELSE i
        d    == AccDigits(s, j, NoDigits(j))
    IN  IF d.n = 0 \/ d.over THEN Conv(FALSE, 0)
        ELSE Conv(TRUE, IF neg THEN 0 - d.val ELSE d.val)

\* stoull(s) on the unsigned decimal texts the model draws
stoull(s) ==
    LET i    == SkipSpace(s, 1)
        j    == IF i <= Len(s) /\ s[i] = "+" THEN i + 1 ELSE i
        d    == AccDigits(s, j, NoDigits(j))
    IN  IF d.n = 0 \/ d.over THEN Conv(FALSE, 0) ELSE Conv(TRUE, d.val)

\* stod(s), in tenths: integer digits and at most one fractional digit
stod(s) ==
    LET i    == SkipSpace(s, 1)
        neg  == i <= Len(s) /\ s[i] = "-"
        j    == IF i <= Len(s) /\ s[i] \in {"+", "-"} THEN i + 1 ELSE i
        d    == AccDigits(s, j, NoDigits(j))
        k    == d.next
        frac == IF k + 1 <= Len(s) /\ s[k] = "." /\ isdigit(s[k + 1])
                THEN DigitVal(s[k + 1]) ELSE 0
        v    == d.val * 10 + frac
    IN  IF d.n = 0 \/ d.over \/ d.val > 21474836 THEN Conv(FALSE, 0)
        ELSE Conv(TRUE, IF neg THEN 0 - v ELSE v)

\* Tail of a std::string from 0-based offset k (subject.c_str() + 1)
CStrFrom(s, k) == IF k >= Len(s) THEN <<>> ELSE SubSeq(s, k + 1, Len(s))

Min(a, b) == IF a < b THEN a ELSE b

\* lines 156-164: channel id from the subject, clamped.  ok = FALSE when
\* stoi throws.  static_cast<size_t> of a negative int wraps to a value
\* above every channel count, so min() yields g_numAnalogInChannels.
ChannelId(subject) ==
    IF toupper(CharAt(subject, 0)) = "C"
    THEN LET n == stoi(CStrFrom(subject, 1))
         IN  IF ~n.ok THEN Conv(FALSE, 0)
             ELSE IF n.val - 1 < 0 THEN Conv(TRUE, g_numAnalogInChannels)
             ELSE Conv(TRUE, Min(n.val - 1, g_numAnalogInChannels))
    ELSE Conv(TRUE, 0)

(***************************************************************************)
(* Command texts                                                           *)
(***************************************************************************)
T_ON     == <<"O", "N">>
T_OFF    == <<"O", "F", "F">>
T_OFFS   == <<"O", "F", "F", "S">>
T_ATTEN  == <<"A", "T", "T", "E", "N">>
T_RANGE  == <<"R", "A", "N", "G", "E">>
T_RATE   == <<"R", "A", "T", "E">>
T_DEPTH  == <<"D", "E", "P", "T", "H">>
T_START  == <<"S", "T", "A", "R", "T">>
T_SINGLE == <<"S", "I", "N", "G", "L", "E">>
T_FORCE  == <<"F", "O", "R", "C", "E">>
T_STOP   == <<"S", "T", "O", "P">>
T_EXIT   == <<"E", "X", "I", "T">>
T_TRIG   == <<"T", "R", "I", "G">>
T_MODE   == <<"M", "O", "D", "E">>
T_EDGE   == <<"E", "D", "G", "E">>
T_DIR    == <<"E", "D", "G", "E", ":", "D", "I", "R">>
T_LEV    == <<"L", "E", "V">>
T_SOU    == <<"S", "O", "U">>
T_DELAY  == <<"D", "E", "L", "A", "Y">>
T_RISING  == <<"R", "I", "S", "I", "N", "G">>
T_FALLING == <<"F", "A", "L", "L", "I", "N", "G">>
T_IDN    == <<"*", "I", "D", "N">>
T_CHANS  == <<"C", "H", "A", "N", "S">>
T_RATES  == <<"R", "A", "T", "E", "S">>
T_DEPTHS == <<"D", "E", "P", "T", "H", "S">>

\* subject ++ ":" ++ command, and command ++ " " ++ argument
OnSubject(subj, cmd) == subj \o <<":">> \o cmd
WithArg(cmd, arg) == cmd \o <<" ">> \o arg

\* the lines a client sends in the model
ChannelSubjects == {<<"C", "1">>, <<"C", "2">>, <<"C", "9", "9">>}

Lines ==
    {OnSubject(c, T_ON) : c \in ChannelSubjects}
    \cup {OnSubject(c, T_OFF) : c \in ChannelSubjects}
    \cup {OnSubject(<<"C", "1">>, WithArg(T_OFFS, <<"1">>)),
          OnSubject(<<"C", "1">>, WithArg(T_ATTEN, <<"1", "0">>)),
          OnSubject(<<"C", "1">>, WithArg(T_RANGE, <<"5">>)),
          WithArg(T_RATE, <<"1", "0", "0", "0", "0", "0", "0">>),
          WithArg(T_RATE, <<"2", "0", "0", "0", "0", "0", "0", "0", "0", "0">>),
          WithArg(T_DEPTH, <<"1", "0", "0", "0">>),
          T_START, T_SINGLE, T_FORCE, T_STOP, T_EXIT,
          OnSubject(T_TRIG, WithArg(T_MODE, T_EDGE)),
          OnSubject(T_TRIG, WithArg(T_DIR, T_RISING)),
          OnSubject(T_TRIG, WithArg(T_LEV, <<"1">>)),
          OnSubject(T_TRIG, WithArg(T_SOU, <<"C", "1">>)),
          OnSubject(T_TRIG, WithArg(T_DELAY, <<"2", "0", "0", "0", "0", "0">>)),
          T_IDN \o <<"?">>}

(***************************************************************************)
(* State                                                                   *)
(***************************************************************************)
VARIABLES
    pc,                         \* position of ScpiServerThread
    line,                       \* the line being handled (<<>> between lines)
    g_channelOn, g_memDepth, g_sampleInterval,
    g_channelOnDuringArm, g_sampleIntervalDuringArm, g_captureMemDepth,
    g_triggerArmed, g_triggerOneShot, g_memDepthChanged,
    g_triggerVoltage, g_triggerChannel, g_triggerSampleIndex,
    g_triggerDelay, g_triggerDeltaSec,
    g_mutex,                    \* owner of g_mutex: "none", "scpi", "data"
    g_waveformThreadQuit,
    dataThreads,                \* streaming threads that have not exited
    devRunning,                 \* the device has an acquisition started
    calls,                      \* Device Control Port calls of this handler
    reply,                      \* reply sent for this line ("" for none)
    out,                        \* subject, cmd, query, args of the command loop
    sendFailed,                 \* ScpiSend of this line's reply returned false
    unapplied                   \* settings whose last device call failed

memvars == <<g_channelOn, g_memDepth, g_sampleInterval,
             g_channelOnDuringArm, g_sampleIntervalDuringArm,
             g_captureMemDepth, g_triggerArmed, g_triggerOneShot,
             g_memDepthChanged, g_triggerVoltage, g_triggerChannel,
             g_triggerSampleIndex, g_triggerDelay, g_triggerDeltaSec>>

vars == <<pc, line, memvars, g_mutex, g_waveformThreadQuit, dataThreads,
          devRunning, calls, reply, out, sendFailed, unapplied>>

\* std::map<size_t,bool> as a function on the keys present
EmptyMap == [k \in {} |-> FALSE]

\* m[k] = v of std::map
MapPut(m, k, v) == [x \in (DOMAIN m) \cup {k} |-> IF x = k THEN v ELSE m[x]]

\* most Device Control Port calls one handler makes (TRIG:SOU and a re-arm)
MaxCalls == 5

\* what the calls of one handler return, in the order they are made
CallResults == [1..MaxCalls -> BOOLEAN]

AllSucceed == [k \in 1..MaxCalls |-> TRUE]

\* the globals a handler works on, with the handler's outcome
Mem ==
    [channelOn |-> g_channelOn, memDepth |-> g_memDepth,
     sampleInterval |-> g_sampleInterval,
     channelOnDuringArm |-> g_channelOnDuringArm,
     sampleIntervalDuringArm |-> g_sampleIntervalDuringArm,
     captureMemDepth |-> g_captureMemDepth,
     triggerArmed |-> g_triggerArmed, triggerOneShot |-> g_triggerOneShot,
     memDepthChanged |-> g_memDepthChanged,
     triggerVoltage |-> g_triggerVoltage, triggerChannel |-> g_triggerChannel,
     triggerSampleIndex |-> g_triggerSampleIndex,
     triggerDelay |-> g_triggerDelay, triggerDeltaSec |-> g_triggerDeltaSec,
     devRunning |-> devRunning, calls |-> <<>>, crashed |-> FALSE,
     unapplied |-> unapplied, oracle |-> AllSucceed, ok |-> TRUE]

\* the handler runs against a device whose k-th call returns o[k]
MemUnder(o) == [Mem EXCEPT !.oracle = o]

\* the calls that program the acquisition configuration (RATE, DEPTH)
ConfigSetters == {"FDwfAnalogInFrequencySet", "FDwfAnalogInBufferSizeSet"}

\* a Device Control Port call, as recorded in calls; ok is what it returned
\* ("if(!FDwf...(...)) LogError(...)": a failure is logged, nothing else)
Call(m, name, arg) ==
    LET ok == m.oracle[Len(m.calls) + 1]
    IN  [m EXCEPT !.calls = Append(m.calls, <<name, arg>>),
                  !.ok = ok,
                  !.unapplied = IF name \notin ConfigSetters THEN @
                                ELSE IF ok THEN @ \ {name}
                                ELSE @ \cup {name}]

\* the process is terminated: an uncaught exception or a fatal signal
Crash(m) == [m EXCEPT !.crashed = TRUE]

(***************************************************************************)
(* Trigger state machine: Start, Stop                                      *)
(***************************************************************************)
\* values g_triggerDelay / g_sampleInterval can leave in g_triggerSampleIndex
\* when g_sampleInterval is 0 and the division does not trap
DivByZeroResults == {0}

\* lines 611-617: the device is started and the trigger is armed
StartDevice(m, sampleIndex) ==
    LET a == Call([m EXCEPT !.triggerSampleIndex = sampleIndex],
                  "FDwfAnalogInAcquisitionModeSet", 1)
        b == Call(a, "FDwfAnalogInConfigure", 1)
    IN  [b EXCEPT !.devRunning = IF b.ok THEN TRUE ELSE @,
                  !.triggerArmed = TRUE]

\* lines 600-602: the arm snapshot
SaveConfiguration(m) ==
    [m EXCEPT !.captureMemDepth = m.memDepth,
              !.channelOnDuringArm = m.channelOn,
              !.sampleIntervalDuringArm = m.sampleInterval]

\* Start(force): the set of outcomes.  The integer division by a zero
\* g_sampleInterval is undefined: it traps (SIGFPE) or yields a value.
Start(m) ==
    LET s == SaveConfiguration(m)
    IN  IF s.sampleInterval = 0
        THEN {Crash(m)} \cup {StartDevice(s, v) : v \in DivByZeroResults}
        ELSE {StartDevice(s, s.triggerDelay \div s.sampleInterval)}

Stop(m) ==
    LET a == Call(m, "FDwfAnalogInConfigure", 0)
    IN  [a EXCEPT !.devRunning = IF a.ok THEN FALSE ELSE @,
                  !.triggerArmed = FALSE]

\* "need to re-arm trigger to apply changes"
ReArm(m) == IF m.triggerArmed THEN Start(m) ELSE {m}

(***************************************************************************)
(* Command handlers of ScpiServerThread; each yields its set of outcomes   *)
(***************************************************************************)
CmdON(m, channelId) ==
    LET a == [m EXCEPT !.channelOn = MapPut(m.channelOn, channelId, TRUE)]
        b == Call(a, "FDwfAnalogInChannelEnableSet", 1)
    IN  ReArm([b EXCEPT !.memDepthChanged = TRUE])

CmdOFF(m, channelId) ==
    LET a == [m EXCEPT !.channelOn = MapPut(m.channelOn, channelId, TRUE)]
        b == Call(a, "FDwfAnalogInChannelEnableSet", 0)
    IN  ReArm([b EXCEPT !.memDepthChanged = TRUE])

CmdOFFS(m, channelId, args) ==
    LET requestedOffset == stod(args[1])
    IN  IF ~requestedOffset.ok THEN {Crash(m)}
        ELSE ReArm(Call(m, "FDwfAnalogInChannelOffsetSet", requestedOffset.val))

CmdATTEN(m, channelId, args) ==
    LET requestedAtten == stod(args[1])
    IN  IF ~requestedAtten.ok THEN {Crash(m)}
        ELSE ReArm(Call(m, "FDwfAnalogInChannelAttenuationSet",
                        requestedAtten.val))

CmdRANGE(m, channelId, args) ==
    LET range == stod(args[1])
    IN  IF ~range.ok THEN {Crash(m)}
        ELSE ReArm(Call(m, "FDwfAnalogInChannelRangeSet", range.val))

\* RATE that forgets the re-arm
CmdRATE_NoRearm(m, args) ==
    LET rate == stoull(args[1])
    IN  IF ~rate.ok THEN {Crash(m)}
        ELSE LET a == Call(m, "FDwfAnalogInFrequencySet", rate.val)
             IN  {[a EXCEPT !.sampleInterval = FS_PER_SECOND \div rate.val]}

CmdRATE(m, args) ==
    LET rate == stoull(args[1])
    IN  IF ~rate.ok THEN {Crash(m)}
        ELSE LET a == Call(m, "FDwfAnalogInFrequencySet", rate.val)
             IN  ReArm([a EXCEPT !.sampleInterval = FS_PER_SECOND \div rate.val])

CmdDEPTH(m, args) ==
    LET depth == stoull(args[1])
    IN  IF ~depth.ok THEN {Crash(m)}
        ELSE LET a == [m EXCEPT !.memDepth = depth.val]
                 b == Call(a, "FDwfAnalogInBufferSizeSet", depth.val)
             IN  ReArm([b EXCEPT !.memDepthChanged = TRUE])

\* lines 355-363: g_channelOn[i] inserts a false entry for an absent key;
\* the loop breaks at the first enabled channel
RECURSIVE AnyChannelsScan(_, _)
AnyChannelsScan(map, i) ==
    IF i >= g_numAnalogInChannels THEN [map |-> map, anyChannels |-> FALSE]
    ELSE LET touched == IF i \in DOMAIN map THEN map
                        ELSE MapPut(map, i, FALSE)
         IN  IF touched[i] THEN [map |-> touched, anyChannels |-> TRUE]
             ELSE AnyChannelsScan(touched, i + 1)

\* START/SINGLE without the "something to capture" check
CmdSTART_NoChannelGuard(m, cmd) ==
    IF m.triggerArmed THEN {m}
    ELSE LET scan == AnyChannelsScan(m.channelOn, 0)
             a    == [m EXCEPT !.channelOn = scan.map]
         IN  {IF s.crashed THEN s
              ELSE [s EXCEPT !.triggerOneShot = (cmd = T_SINGLE)]
              : s \in Start(a)}

\* START/SINGLE that leaves g_triggerOneShot as it was
CmdSTART_KeepOneShot(m, cmd) ==
    IF m.triggerArmed THEN {m}
    ELSE LET scan == AnyChannelsScan(m.channelOn, 0)
             a    == [m EXCEPT !.channelOn = scan.map]
         IN  IF ~scan.anyChannels THEN {a} ELSE Start(a)

CmdSTART(m, cmd) ==
    IF m.triggerArmed THEN {m}
    ELSE LET scan == AnyChannelsScan(m.channelOn, 0)
             a    == [m EXCEPT !.channelOn = scan.map]
         IN  IF ~scan.anyChannels THEN {a}
             ELSE {IF s.crashed THEN s
                   ELSE [s EXCEPT !.triggerOneShot = (cmd = T_SINGLE)]
                   : s \in Start(a)}

CmdFORCE(m) == Start(m)

CmdSTOP(m) == {Stop(m)}

\* TRIG:MODE takes no lock and does not re-arm
CmdTRIG_MODE(m, args) ==
    IF args[1] = T_EDGE
    THEN {Call(m, "FDwfAnalogInTriggerTypeSet", 0)}
    ELSE {m}

\* DwfTriggerSlopeRise, DwfTriggerSlopeFall, DwfTriggerSlopeEither
CmdTRIG_EDGE_DIR(m, args) ==
    LET condition == IF args[1] = T_RISING THEN 0
                     ELSE IF args[1] = T_FALLING THEN 1 ELSE 2
    IN  ReArm(Call(m, "FDwfAnalogInTriggerConditionSet", condition))

CmdTRIG_LEV(m, args) ==
    LET v == stod(args[1])
    IN  IF ~v.ok THEN {Crash(m)}
        ELSE ReArm(Call([m EXCEPT !.triggerVoltage = v.val],
                        "FDwfAnalogInTriggerLevelSet", v.val))

\* args[0][1] - '1', kept as the signed value the size_t holds
CmdTRIG_SOU(m, args) ==
    LET a  == Call(m, "FDwfAnalogInTriggerSourceSet", 0)
        b  == Call(a, "FDwfAnalogInTriggerAutoTimeoutSet", 0)
        ch == Ord(CharAt(args[1], 1)) - Ord("1")
        c  == Call([b EXCEPT !.triggerChannel = ch],
                   "FDwfAnalogInTriggerChannelSet", ch)
    IN  ReArm(c)

\* residual actual - requested the device can report for a trigger position
PositionResiduals == {0, 1}

\* position_sec_actual is read uninitialized when the read-back failed:
\* the difference stored is any value
IndeterminateResiduals == PositionResiduals \cup {7}

\* TRIG:DELAY that subtracts the midpoint from the delay
CmdTRIG_DELAY_Reversed(m, args) ==
    LET delay == stoull(args[1])
    IN  IF ~delay.ok THEN {Crash(m)}
        ELSE LET offset_samples == m.memDepth \div 2
                 offset_fs      == offset_samples * m.sampleInterval
                 position_fs    == delay.val - offset_fs
                 a == Call([m EXCEPT !.triggerDelay = delay.val],
                           "FDwfAnalogInTriggerPositionSet", position_fs)
                 b == Call(a, "FDwfAnalogInTriggerPositionGet", 0)
             IN  UNION {ReArm([b EXCEPT !.triggerDeltaSec = r])
                        : r \in IF b.ok THEN PositionResiduals
                                 ELSE IndeterminateResiduals}

CmdTRIG_DELAY(m, args) ==
    LET delay == stoull(args[1])
    IN  IF ~delay.ok THEN {Crash(m)}
        ELSE LET offset_samples == m.memDepth \div 2
                 offset_fs      == offset_samples * m.sampleInterval
                 position_fs    == offset_fs - delay.val
                 a == Call([m EXCEPT !.triggerDelay = delay.val],
                           "FDwfAnalogInTriggerPositionSet", position_fs)
                 b == Call(a, "FDwfAnalogInTriggerPositionGet", 0)
             IN  UNION {ReArm([b EXCEPT !.triggerDeltaSec = r])
                        : r \in IF b.ok THEN PositionResiduals
                                 ELSE IndeterminateResiduals}

(***************************************************************************)
(* Dispatch: the if/else chain of the command loop, in source order        *)
(***************************************************************************)
\* lines 230-514: the branches taken when the line is not a query
CommandKind(p) ==
    IF p.cmd = T_EXIT THEN "EXIT"
    ELSE IF p.cmd = T_ON THEN "ON"
    ELSE IF p.cmd = T_OFF THEN "OFF"
    ELSE IF p.cmd = T_OFFS /\ Len(p.args) = 1 THEN "OFFS"
    ELSE IF p.cmd = T_ATTEN /\ Len(p.args) = 1 THEN "ATTEN"
    ELSE IF p.cmd = T_RANGE /\ Len(p.args) = 1 THEN "RANGE"
    ELSE IF p.cmd = T_RATE /\ Len(p.args) = 1 THEN "RATE"
    ELSE IF p.cmd = T_DEPTH /\ Len(p.args) = 1 THEN "DEPTH"
    ELSE IF p.cmd = T_START \/ p.cmd = T_SINGLE THEN "START"
    ELSE IF p.cmd = T_FORCE THEN "FORCE"
    ELSE IF p.cmd = T_STOP THEN "STOP"
    ELSE IF p.subject = T_TRIG
    THEN IF p.cmd = T_MODE /\ Len(p.args) = 1 THEN "TRIG:MODE"
         ELSE IF p.cmd = T_DIR /\ Len(p.args) = 1 THEN "TRIG:EDGE:DIR"
         ELSE IF p.cmd = T_LEV /\ Len(p.args) = 1 THEN "TRIG:LEV"
         ELSE IF p.cmd = T_SOU /\ Len(p.args) = 1 THEN "TRIG:SOU"
         ELSE IF p.cmd = T_DELAY /\ Len(p.args) = 1 THEN "TRIG:DELAY"
         ELSE "TRIG:unrecognized"
    ELSE "unrecognized"

\* the chain without its "if(query)" branch
Kind_NoQueryBranch(p) == CommandKind(p)

\* line 175: "if(query)" comes first
Kind(p) == IF p.query THEN "query" ELSE CommandKind(p)

\* the handlers that open with lock_guard<mutex> lock(g_mutex)
LockedKinds ==
    {"ON", "OFF", "OFFS", "ATTEN", "RANGE", "RATE", "DEPTH", "START",
     "FORCE", "STOP", "TRIG:EDGE:DIR", "TRIG:LEV", "TRIG:SOU", "TRIG:DELAY"}

\* outcomes of the handler selected for parsed line p
Handle(m, p, channelId) ==
    LET k == Kind(p)
    IN  CASE k = "ON"            -> CmdON(m, channelId)
          [] k = "OFF"           -> CmdOFF(m, channelId)
          [] k = "OFFS"          -> CmdOFFS(m, channelId, p.args)
          [] k = "ATTEN"         -> CmdATTEN(m, channelId, p.args)
          [] k = "RANGE"         -> CmdRANGE(m, channelId, p.args)
          [] k = "RATE"          -> CmdRATE(m, p.args)
          [] k = "DEPTH"         -> CmdDEPTH(m, p.args)
          [] k = "START"         -> CmdSTART(m, p.cmd)
          [] k = "FORCE"         -> CmdFORCE(m)
          [] k = "STOP"          -> CmdSTOP(m)
          [] k = "TRIG:MODE"     -> CmdTRIG_MODE(m, p.args)
          [] k = "TRIG:EDGE:DIR" -> CmdTRIG_EDGE_DIR(m, p.args)
          [] k = "TRIG:LEV"      -> CmdTRIG_LEV(m, p.args)
          [] k = "TRIG:SOU"      -> CmdTRIG_SOU(m, p.args)
          [] k = "TRIG:DELAY"    -> CmdTRIG_DELAY(m, p.args)
          [] OTHER               -> {m}

\* a query branch that knows the identification query as "IDN"
QueryReply_BareIDN(p) ==
    IF p.cmd = <<"I", "D", "N">> THEN "IDN"
    ELSE IF p.cmd = T_CHANS THEN "CHANS"
    ELSE IF p.cmd = T_RATES THEN "RATES"
    ELSE IF p.cmd = T_DEPTHS THEN "DEPTHS"
    ELSE ""

\* reply of the query branch, "" when nothing is sent
QueryReply(p) ==
    IF p.cmd = T_IDN THEN "IDN"
    ELSE IF p.cmd = T_CHANS THEN "CHANS"
    ELSE IF p.cmd = T_RATES THEN "RATES"
    ELSE IF p.cmd = T_DEPTHS THEN "DEPTHS"
    ELSE ""

\* lines 188-190: RATES? asks the device for its frequency range
QueryCalls(p) ==
    IF p.cmd = T_RATES THEN <<<<"FDwfAnalogInFrequencyInfo", 0>>>> ELSE <<>>

(***************************************************************************)
(* Actions                                                                 *)
(***************************************************************************)
\* lines 52-84: the globals as their definitions initialize them
InitGlobals ==
    /\ g_channelOn = EmptyMap
    /\ g_memDepth = 1000000
    /\ g_sampleInterval = 0
    /\ g_channelOnDuringArm = EmptyMap
    /\ g_sampleIntervalDuringArm = 0
    /\ g_captureMemDepth = 0
    /\ g_triggerArmed = FALSE
    /\ g_triggerOneShot = FALSE
    /\ g_memDepthChanged = FALSE
    /\ g_triggerVoltage = 0
    /\ g_triggerChannel = 0
    /\ g_triggerSampleIndex = 0
    /\ g_triggerDelay = 0
    /\ g_triggerDeltaSec = 0
    /\ g_mutex = "none"
    /\ g_waveformThreadQuit = FALSE
    /\ dataThreads = 0
    /\ devRunning = FALSE
    /\ calls = <<>>
    /\ reply = ""
    /\ sendFailed = FALSE
    /\ unapplied = {}

Init ==
    /\ pc = "accept"
    /\ line = <<>>
    /\ out = NoOutputs
    /\ InitGlobals

\* the globals and the device after a handler outcome r
Install(r) ==
    /\ g_channelOn' = r.channelOn
    /\ g_memDepth' = r.memDepth
    /\ g_sampleInterval' = r.sampleInterval
    /\ g_channelOnDuringArm' = r.channelOnDuringArm
    /\ g_sampleIntervalDuringArm' = r.sampleIntervalDuringArm
    /\ g_captureMemDepth' = r.captureMemDepth
    /\ g_triggerArmed' = r.triggerArmed
    /\ g_triggerOneShot' = r.triggerOneShot
    /\ g_memDepthChanged' = r.memDepthChanged
    /\ g_triggerVoltage' = r.triggerVoltage
    /\ g_triggerChannel' = r.triggerChannel
    /\ g_triggerSampleIndex' = r.triggerSampleIndex
    /\ g_triggerDelay' = r.triggerDelay
    /\ g_triggerDeltaSec' = r.triggerDeltaSec
    /\ devRunning' = r.devRunning
    /\ calls' = r.calls
    /\ unapplied' = r.unapplied

\* the process dies; nothing runs afterwards
Terminate ==
    /\ pc' = "crashed"
    /\ UNCHANGED <<line, memvars, g_mutex, g_waveformThreadQuit, dataThreads,
                   devRunning, calls, reply, out, sendFailed, unapplied>>

\* lines 129-141: a client connects, the device is reset, dataThread starts
Accept ==
    /\ pc = "accept"
    /\ pc' = "recv"
    /\ devRunning' = FALSE
    /\ dataThreads' = dataThreads + 1
    /\ UNCHANGED <<line, memvars, g_mutex, g_waveformThreadQuit, calls, reply,
                   out, sendFailed, unapplied>>

\* lines 133-134: Accept returned an invalid socket, the server loop ends
AcceptInvalid ==
    /\ pc = "accept"
    /\ pc' = "stopped"
    /\ UNCHANGED <<line, memvars, g_mutex, g_waveformThreadQuit, dataThreads,
                   devRunning, calls, reply, out, sendFailed, unapplied>>

\* lines 151-164: a line drawn from L is read and parsed, the channel id is
\* extracted
RecvFrom(L) ==
    /\ pc = "recv"
    /\ \E l \in L :
          /\ line' = l
          /\ out' = ParseScpiLineInto(out, l)
          /\ pc' = IF ChannelId(ParseScpiLine(l).subject).ok
                   THEN "dispatch" ELSE "crashed"
    /\ UNCHANGED <<memvars, g_mutex, g_waveformThreadQuit, dataThreads,
                   devRunning, calls, reply, sendFailed, unapplied>>

ScpiRecv == RecvFrom(Lines)

\* lines 151-152: the read fails or the peer closed the connection
ScpiRecvFail ==
    /\ pc = "recv"
    /\ pc' = "teardown"
    /\ UNCHANGED <<line, memvars, g_mutex, g_waveformThreadQuit, dataThreads,
                   devRunning, calls, reply, out, sendFailed, unapplied>>

Parsed == ParseScpiLine(line)

\* what the command loop does with the bool ScpiSend returned
AfterSend(sent) == "next"

\* lines 175-231: a query is answered, EXIT leaves the command loop.
\* ScpiSend returns false when the write failed or was cut short.
DispatchQuery ==
    /\ pc = "dispatch"
    /\ Kind(Parsed) = "query"
    /\ reply' = QueryReply(Parsed)
    /\ calls' = QueryCalls(Parsed)
    /\ \E sent \in (IF QueryReply(Parsed) = "" THEN {TRUE} ELSE BOOLEAN) :
          /\ sendFailed' = ~sent
          /\ pc' = AfterSend(sent)
    /\ UNCHANGED <<line, memvars, g_mutex, g_waveformThreadQuit, dataThreads,
                   devRunning, out, unapplied>>

DispatchExit ==
    /\ pc = "dispatch"
    /\ Kind(Parsed) = "EXIT"
    /\ pc' = "teardown"
    /\ line' = <<>>
    /\ out' = NoOutputs
    /\ UNCHANGED <<memvars, g_mutex, g_waveformThreadQuit, dataThreads,
                   devRunning, calls, reply, sendFailed, unapplied>>

\* a handler without lock_guard: TRIG:MODE and the unrecognized commands;
\* the device calls return what an element of O says
RunUnlocked(O) ==
    /\ pc = "dispatch"
    /\ Kind(Parsed) \notin LockedKinds \cup {"query", "EXIT"}
    /\ \E o \in O :
       \E r \in Handle(MemUnder(o), Parsed, ChannelId(Parsed.subject).val) :
          IF r.crashed THEN Terminate
          ELSE /\ Install(r)
               /\ pc' = "next"
               /\ UNCHANGED <<line, g_mutex, g_waveformThreadQuit,
                              dataThreads, reply, out, sendFailed>>

DispatchUnlocked == RunUnlocked({AllSucceed})

\* lock_guard<mutex> lock(g_mutex): blocks while the mutex is held
Lock ==
    /\ pc = "dispatch"
    /\ Kind(Parsed) \in LockedKinds
    /\ g_mutex = "none"
    /\ g_mutex' = "scpi"
    /\ pc' = "locked"
    /\ UNCHANGED <<line, memvars, g_waveformThreadQuit, dataThreads,
                   devRunning, calls, reply, out, sendFailed, unapplied>>

\* the body of a locked handler up to the end of its scope, where the
\* lock_guard releases the mutex (also on the two "continue" paths);
\* the device calls return what an element of O says
RunLocked(O) ==
    /\ pc = "locked"
    /\ \E o \in O :
       \E r \in Handle(MemUnder(o), Parsed, ChannelId(Parsed.subject).val) :
          IF r.crashed THEN Terminate
          ELSE /\ Install(r)
               /\ g_mutex' = "none"
               /\ pc' = "next"
               /\ UNCHANGED <<line, g_waveformThreadQuit, dataThreads, reply,
                              out, sendFailed>>

Locked == RunLocked({AllSucceed})

\* line 149: the handler is over and the loop comes round; what the iteration
\* left in its locals is dead (ScpiRecv and ParseScpiLine overwrite it)
NextCommand ==
    /\ pc = "next"
    /\ pc' = "recv"
    /\ line' = <<>>
    /\ calls' = <<>>
    /\ reply' = ""
    /\ out' = NoOutputs
    /\ sendFailed' = FALSE
    /\ UNCHANGED <<memvars, g_mutex, g_waveformThreadQuit, dataThreads,
                   devRunning, unapplied>>

\* lines 517-522: the device is reset and the streaming thread told to quit
Teardown ==
    /\ pc = "teardown"
    /\ devRunning' = FALSE
    /\ g_waveformThreadQuit' = TRUE
    /\ pc' = "join"
    /\ UNCHANGED <<line, memvars, g_mutex, dataThreads, calls, reply, out,
                   sendFailed, unapplied>>

\* a join that does not wait
JoinNoWait == TRUE

\* the streaming thread of this connection has returned
Joinable == dataThreads = 0

\* lines 523-524: dataThread.join() returns, the flag is cleared
Join ==
    /\ pc = "join"
    /\ Joinable
    /\ g_waveformThreadQuit' = FALSE
    /\ pc' = "accept"
    /\ UNCHANGED <<line, memvars, g_mutex, dataThreads, devRunning, calls,
                   reply, out, sendFailed, unapplied>>

\* WaveformServerThread: takes the mutex to read the arm snapshot, leaves
\* its loop when it sees g_waveformThreadQuit
Alive == pc \notin {"crashed"}

DataLock ==
    /\ Alive
    /\ dataThreads > 0
    /\ g_mutex = "none"
    /\ g_mutex' = "data"
    /\ UNCHANGED <<pc, line, memvars, g_waveformThreadQuit, dataThreads,
                   devRunning, calls, reply, out, sendFailed, unapplied>>

DataUnlock ==
    /\ Alive
    /\ g_mutex = "data"
    /\ g_mutex' = "none"
    /\ UNCHANGED <<pc, line, memvars, g_waveformThreadQuit, dataThreads,
                   devRunning, calls, reply, out, sendFailed, unapplied>>

DataExit ==
    /\ Alive
    /\ dataThreads > 0
    /\ g_mutex # "data"
    /\ g_waveformThreadQuit
    /\ dataThreads' = dataThreads - 1
    /\ UNCHANGED <<pc, line, memvars, g_mutex, g_waveformThreadQuit,
                   devRunning, calls, reply, out, sendFailed, unapplied>>

\* the connection supervisor with a device that accepts every call
Next ==
    \/ Accept
    \/ AcceptInvalid
    \/ ScpiRecv
    \/ ScpiRecvFail
    \/ DispatchQuery
    \/ DispatchExit
    \/ DispatchUnlocked
    \/ Lock
    \/ Locked
    \/ NextCommand
    \/ Teardown
    \/ Join
    \/ DataLock
    \/ DataUnlock
    \/ DataExit

Spec == Init /\ [][Next]_vars

(***************************************************************************)
(* The same connection with faults: device calls that fail, lines that are *)
(* malformed, queries on any command                                       *)
(***************************************************************************)
T_FOO == <<"F", "O", "O">>

\* lines the dispatcher has no handler for, or whose argument is no number
MalformedLines ==
    {OnSubject(<<"C", "X">>, T_ON),
     OnSubject(<<"C", "1">>, WithArg(T_OFFS, <<"X">>)),
     OnSubject(<<"X">>, T_ON),
     T_FOO, T_DEPTH, <<>>}

\* lines with a '?'
QueryLines ==
    {T_IDN \o <<"?">>, T_CHANS \o <<"?">>, T_RATES \o <<"?">>,
     T_FOO \o <<"?">>,
     T_STOP \o <<"?">>, OnSubject(<<"C", "1">>, T_ON) \o <<"?">>}

FaultLines ==
    {OnSubject(<<"C", "1">>, T_ON),
     WithArg(T_RATE, <<"1", "0", "0", "0", "0", "0", "0">>),
     WithArg(T_DEPTH, <<"1", "0", "0", "0">>),
     T_START, T_FORCE, T_STOP, T_EXIT,
     OnSubject(T_TRIG, WithArg(T_MODE, T_EDGE)),
     OnSubject(T_TRIG, WithArg(T_DELAY, <<"2", "0", "0", "0", "0", "0">>))}
    \cup MalformedLines \cup QueryLines

ScpiRecvFault == RecvFrom(FaultLines)

DispatchUnlockedFault == RunUnlocked(CallResults)

LockedFault == RunLocked(CallResults)

NextFault ==
    \/ Accept
    \/ AcceptInvalid
    \/ ScpiRecvFault
    \/ ScpiRecvFail
    \/ DispatchQuery
    \/ DispatchExit
    \/ DispatchUnlockedFault
    \/ Lock
    \/ LockedFault
    \/ NextCommand
    \/ Teardown
    \/ Join
    \/ DataLock
    \/ DataUnlock
    \/ DataExit

SpecFault == Init /\ [][NextFault]_vars

(***************************************************************************)
(* ParseScpiLine on its own: every short line over the characters the      *)
(* parser tells apart, parsed into variables that hold an earlier result   *)
(***************************************************************************)
MaxLineLen == 4

ParseAlphabet == {"A", ":", "?", " ", ","}

T_LEV_1_5 == OnSubject(T_TRIG, WithArg(T_LEV, <<"1", ".", "5">>))

T_DIR_RISING == OnSubject(T_TRIG, WithArg(T_DIR, T_RISING))

ParseInputs ==
    UNION {[1..n -> ParseAlphabet] : n \in 0..MaxLineLen}
    \cup {T_LEV_1_5, T_DIR_RISING, T_IDN \o <<"?">>}

\* line 146: query is not initialized; the strings and the vector are empty
FirstOutputs == {[NoOutputs EXCEPT !.query = q] : q \in BOOLEAN}

InitParse ==
    /\ pc = "parse"
    /\ line = <<>>
    /\ out \in FirstOutputs
    /\ InitGlobals

\* line 153: ParseScpiLine(line, subject, cmd, query, args)
CallParseScpiLine ==
    /\ pc \in {"parse", "parsed"}
    /\ \E l \in ParseInputs :
          /\ line' = l
          /\ out' = ParseScpiLineInto(out, l)
    /\ pc' = "parsed"
    /\ UNCHANGED <<memvars, g_mutex, g_waveformThreadQuit, dataThreads,
                   devRunning, calls, reply, sendFailed, unapplied>>

NextParse == CallParseScpiLine

SpecParse == InitParse /\ [][NextParse]_vars

(***************************************************************************)
(* Vocabulary of the properties                                            *)
(***************************************************************************)
\* the step in which the handler of the current line runs
HandlerRuns ==
    \/ pc = "locked"
    \/ pc = "dispatch" /\ Kind(Parsed) \notin LockedKinds

\* ... and returns to the command loop (the process was not terminated)
HandlerReturns == HandlerRuns /\ pc' = "next"

\* the commands of the re-arm table
RearmKinds ==
    {"ON", "OFF", "OFFS", "ATTEN", "RANGE", "RATE", "DEPTH", "TRIG:MODE",
     "TRIG:EDGE:DIR", "TRIG:LEV", "TRIG:SOU", "TRIG:DELAY"}

\* the device start closes the calls of the handler
ArmIssued(c) == Len(c) >= 1 /\ c[Len(c)] = <<"FDwfAnalogInConfigure", 1>>

Live == <<g_channelOn, g_sampleInterval, g_memDepth>>

Snapshot ==
    <<g_channelOnDuringArm, g_sampleIntervalDuringArm, g_captureMemDepth>>

\* at least one physical channel is enabled
AnyEnabled ==
    \E i \in 0..(g_numAnalogInChannels - 1) :
        i \in DOMAIN g_channelOn /\ g_channelOn[i]

Admitted == ~g_triggerArmed /\ AnyEnabled

CurrentChannel == ChannelId(Parsed.subject).val

(***************************************************************************)
(* C1 - every command of the re-arm table (ON, OFF, OFFS, ATTEN, RANGE,    *)
(* RATE, DEPTH, TRIG:MODE, TRIG:EDGE:DIR, TRIG:LEV, TRIG:SOU, TRIG:DELAY)  *)
(* executed while the trigger is armed re-issues the arm sequence (fresh   *)
(* snapshot, device start) before the next command is read.                *)
(***************************************************************************)
C1_RearmUniform ==
    [][(HandlerReturns /\ g_triggerArmed /\ Kind(Parsed) \in RearmKinds)
          => (ArmIssued(calls') /\ g_triggerArmed' /\ Snapshot' = Live')]_vars

(***************************************************************************)
(* C2 - whenever the trigger is armed at a command boundary the arm        *)
(* snapshot equals the live configuration; a command of the re-arm table   *)
(* executed while armed changes the snapshot exactly when it changes the   *)
(* live configuration.                                                     *)
(***************************************************************************)
C2_SnapshotIsLive ==
    /\ []((g_triggerArmed /\ g_mutex # "scpi") => Snapshot = Live)
    /\ [][(HandlerReturns /\ g_triggerArmed /\ Kind(Parsed) \in RearmKinds)
            => ((Snapshot' # Snapshot) <=> (Live' # Live))]_vars

\* RATE re-armed a running capture: the snapshot holds the new interval
C2_Witness ==
    /\ pc = "next"
    /\ Kind(Parsed) = "RATE"
    /\ g_triggerArmed
    /\ Len(calls) = 3
    /\ g_sampleInterval = 1000
    /\ g_sampleIntervalDuringArm = 1000

(***************************************************************************)
(* C3 - START/SINGLE is admitted (the arm sequence is entered) exactly     *)
(* when the trigger is disarmed and a channel is enabled; otherwise the    *)
(* command is ignored: armed flag, one-shot flag and snapshot unchanged,   *)
(* no device call.                                                         *)
(***************************************************************************)
C3_AdmissionGuard ==
    [][(HandlerRuns /\ Kind(Parsed) = "START" /\ pc' # pc)
          => IF Admitted
             THEN pc' = "crashed" \/ (ArmIssued(calls') /\ g_triggerArmed')
             ELSE /\ pc' = "next"
                  /\ g_triggerArmed' = g_triggerArmed
                  /\ g_triggerOneShot' = g_triggerOneShot
                  /\ Snapshot' = Snapshot
                  /\ devRunning' = devRunning
                  /\ calls' = <<>>]_vars

\* START was ignored for want of an enabled channel, although the entry
\* written by C99:ON is set
C3_Witness ==
    /\ pc = "next"
    /\ Kind(Parsed) = "START"
    /\ ~g_triggerArmed
    /\ calls = <<>>
    /\ g_numAnalogInChannels \in DOMAIN g_channelOn

(***************************************************************************)
(* C4 - FORCE, in any reachable state, completes the arm sequence and      *)
(* leaves the trigger armed.                                               *)
(***************************************************************************)
C4_ForceArms ==
    [][(HandlerRuns /\ Kind(Parsed) = "FORCE" /\ pc' # pc)
          => (pc' = "next" /\ ArmIssued(calls') /\ g_triggerArmed'
              /\ Snapshot' = Live')]_vars

(***************************************************************************)
(* C5 - after SINGLE the trigger is armed with oneShot true, after START   *)
(* it is armed with oneShot false.                                         *)
(***************************************************************************)
C5_OneShotAfterStart ==
    [][(HandlerReturns /\ Kind(Parsed) = "START")
          => (g_triggerArmed' /\ g_triggerOneShot' = (Parsed.cmd = T_SINGLE))
      ]_vars

\* C5 as amended - after an admitted SINGLE (trigger disarmed, a channel
\* enabled) the trigger is armed with oneShot true, after an admitted START
\* it is armed with oneShot false whatever oneShot held before; a START or
\* SINGLE that is not admitted leaves oneShot as it was.
C5_OneShotWhenAdmitted ==
    [][(HandlerReturns /\ Kind(Parsed) = "START")
          => IF Admitted
             THEN g_triggerArmed'
                  /\ g_triggerOneShot' = (Parsed.cmd = T_SINGLE)
             ELSE g_triggerOneShot' = g_triggerOneShot]_vars

\* an admitted START has armed the trigger in continuous mode
C5_Witness ==
    /\ pc = "next"
    /\ Parsed.cmd = T_START
    /\ ArmIssued(calls)
    /\ g_triggerArmed
    /\ ~g_triggerOneShot

(***************************************************************************)
(* C6 - in every state at a command boundary, oneShot implies armed.       *)
(***************************************************************************)
C6_OneShotImpliesArmed ==
    (pc \in {"recv", "next"} /\ g_triggerOneShot) => g_triggerArmed

(***************************************************************************)
(* C7 - ON sets the enable flag of the addressed channel, OFF clears it;   *)
(* both mark the memory depth dirty.                                       *)
(***************************************************************************)
C7_OnOffSetFlag ==
    [][(HandlerReturns /\ Kind(Parsed) \in {"ON", "OFF"})
          => /\ g_channelOn'[CurrentChannel] = (Kind(Parsed) = "ON")
             /\ g_memDepthChanged']_vars

(***************************************************************************)
(* C8 - the channel id derived from a subject C<n> lies in                 *)
(* 0..maxChannels-1, and so does every key written to the enable map.      *)
(***************************************************************************)
C8_ChannelClamped ==
    /\ pc \in {"dispatch", "locked"}
          => CurrentChannel \in 0..(g_numAnalogInChannels - 1)
    /\ DOMAIN g_channelOn \subseteq 0..(g_numAnalogInChannels - 1)

(***************************************************************************)
(* C9 - every mutating command holds g_mutex while it changes state and    *)
(* calls the device, and has released it when the next command is read.    *)
(***************************************************************************)
MutatingKinds == LockedKinds \cup {"TRIG:MODE"}

C9_LockHeld ==
    [][(HandlerRuns /\ Kind(Parsed) \in MutatingKinds /\ pc' # pc)
          => (g_mutex = "scpi" /\ (pc' = "next" => g_mutex' = "none"))]_vars

(***************************************************************************)
(* C10 - a command loop ends in the teardown; the termination flag is set  *)
(* and the streaming thread has returned before the next Accept; there is  *)
(* never more than one streaming thread, and the flag is false when one is *)
(* started.                                                                *)
(***************************************************************************)
InCommandLoop == pc \in {"recv", "dispatch", "locked", "next"}

C10_DisconnectCleanup ==
    /\ [](/\ dataThreads <= 1
          /\ pc = "accept" => (dataThreads = 0 /\ ~g_waveformThreadQuit)
          /\ pc = "join" => g_waveformThreadQuit
          /\ InCommandLoop => (dataThreads = 1 /\ ~g_waveformThreadQuit))
    /\ [][/\ (InCommandLoop /\ ~InCommandLoop')
                => pc' \in {"teardown", "crashed"}
          /\ (pc # "accept" /\ pc' = "accept")
                => (pc = "join" /\ g_waveformThreadQuit /\ dataThreads = 0)
          /\ (dataThreads' > dataThreads)
                => (dataThreads = 0 /\ ~g_waveformThreadQuit')]_vars

\* a connection that changed the configuration is over and torn down
C10_Witness ==
    /\ pc = "accept"
    /\ g_memDepthChanged
    /\ dataThreads = 0
    /\ ~g_waveformThreadQuit

(***************************************************************************)
(* Error handling                                                          *)
(***************************************************************************)
\* the in-memory configuration of a handler outcome
Globals(r) ==
    <<r.channelOn, r.memDepth, r.sampleInterval, r.channelOnDuringArm,
      r.sampleIntervalDuringArm, r.captureMemDepth, r.triggerArmed,
      r.triggerOneShot, r.memDepthChanged, r.triggerVoltage,
      r.triggerChannel, r.triggerSampleIndex, r.triggerDelay,
      r.triggerDeltaSec>>

\* what the handler of the current line can leave in memory, and whether the
\* process survives it, when its device calls return o
OutcomesUnder(o) ==
    {<<Globals(r), r.crashed>> :
        r \in Handle(MemUnder(o), Parsed, CurrentChannel)}

\* the current line is about to be handled
HandlerDue ==
    \/ pc = "locked"
    \/ pc = "dispatch" /\ Kind(Parsed) \notin LockedKinds \cup {"query", "EXIT"}

\* C11: a device call that fails changes nothing else: whatever the device
\* calls of a handler return, the handler leaves the same in-memory state
\* (enables, interval, depth, dirty flag, trigger fields, armed flag,
\* snapshot) as when they all succeed, and the process survives alike.
C11_FailureKeepsState ==
    HandlerDue =>
        \A o \in CallResults : OutcomesUnder(o) = OutcomesUnder(AllSucceed)

\* C12: a malformed or unrecognized line is ignored: from the read of the
\* line to the end of its handling no global changes, no reply is sent and
\* the thread neither dies nor leaves the command loop.
C12_MalformedIgnored ==
    [][((pc = "recv" /\ pc' \in {"dispatch", "crashed"}
            /\ line' \in MalformedLines)
        \/ (pc \in {"dispatch", "locked"} /\ line \in MalformedLines))
       => /\ memvars' = memvars
          /\ reply' = ""
          /\ pc' \in {"dispatch", "locked", "next"}]_vars

\* C13: a reply whose write failed ends the command loop of the connection:
\* no state of the loop is reached after the failed ScpiSend.
C13_FailedWriteEndsLoop == sendFailed => ~InCommandLoop

RecognizedQueries == {T_IDN, T_CHANS, T_RATES, T_DEPTHS}

\* C14: a reply is sent at most once per line and only for a line parsed as
\* one of the recognized queries; while a line parsed as a query is handled
\* no global changes, and an unrecognized query gets no reply.
C14_ReplyDiscipline ==
    [][/\ reply' # reply /\ reply' # ""
          => /\ pc = "dispatch" /\ reply = ""
             /\ Parsed.query /\ Parsed.cmd \in RecognizedQueries
       /\ pc \in {"dispatch", "locked"} /\ Parsed.query
          => /\ memvars' = memvars
             /\ (Parsed.cmd \notin RecognizedQueries => reply' = "")]_vars

\* 'C1:ON?' has been handled: no reply, and channel 0 was not enabled by it
C14_Witness ==
    /\ pc = "next"
    /\ line = OnSubject(<<"C", "1">>, T_ON) \o <<"?">>
    /\ reply = ""
    /\ 0 \notin DOMAIN g_channelOn

\* a character that is no delimiter of ParseScpiLine
IsPlain(c) == c \notin {":", "?", ","} /\ ~isspace(c)

\* line is SUBJECT ':' CMD '?' with the colon at position k
IsSubjectCmdQuery(l, k) ==
    /\ 1 < k /\ k + 1 < Len(l)
    /\ l[k] = ":" /\ l[Len(l)] = "?"
    /\ \A i \in (1..(Len(l) - 1)) \ {k} : IsPlain(l[i])

\* C15: after ParseScpiLine, SUBJECT:CMD? has given query = true, the
\* subject, the command and no arguments; 'TRIG:LEV 1.5' has given TRIG,
\* LEV, ['1.5'], not a query; and the four outputs are those a call with
\* fresh outputs gives for the same line, whatever they held before.
C15_ParseResult ==
    pc = "parsed" =>
        /\ out = ParseScpiLine(line)
        /\ \A k \in 1..Len(line) :
              IsSubjectCmdQuery(line, k)
              => out = [subject |-> SubSeq(line, 1, k - 1),
                        cmd |-> SubSeq(line, k + 1, Len(line) - 1),
                        query |-> TRUE, args |-> <<>>]
        /\ line = T_LEV_1_5
           => out = [subject |-> T_TRIG, cmd |-> T_LEV, query |-> FALSE,
                     args |-> <<<<"1", ".", "5">>>>]

\* 'A:A?' has been parsed
C15_Witness ==
    /\ pc = "parsed"
    /\ line = <<"A", ":", "A", "?">>
    /\ out = [subject |-> <<"A">>, cmd |-> <<"A">>, query |-> TRUE,
              args |-> <<>>]

IdnLine == T_IDN \o <<"?">>

\* C16 as stated: '*IDN?' parses to subject "", command "IDN", a query
C16_IdnParsesToIDN ==
    pc = "dispatch" /\ line = IdnLine
    => out = [subject |-> <<>>, cmd |-> <<"I", "D", "N">>, query |-> TRUE,
              args |-> <<>>]

\* C16: '*IDN?' parses to subject "", command "*IDN" (the asterisk is kept),
\* a query with no arguments; the dispatcher takes it as the identification
\* query and sends the identification reply, once.
C16_IdnParsesToStarIDN ==
    /\ pc = "dispatch" /\ line = IdnLine
       => /\ out = [subject |-> <<>>, cmd |-> <<"*", "I", "D", "N">>,
                    query |-> TRUE, args |-> <<>>]
          /\ Kind(out) = "query"
          /\ reply = ""
    /\ pc = "next" /\ line = IdnLine => reply = "IDN"

C16_Witness == pc = "next" /\ line = IdnLine /\ reply = "IDN" /\ ~sendFailed

(***************************************************************************)
(* Trigger delay, arming, retry                                            *)
(***************************************************************************)
\* the delay the current TRIG:DELAY line asks for
RequestedDelay == stoull(Parsed.args[1]).val

\* the handler of a TRIG:DELAY line returns
DelayHandled == HandlerReturns /\ Kind(Parsed) = "TRIG:DELAY"

\* the worked example: depth 1000 samples, interval 1000, delay 200000
DelayExample ==
    g_memDepth = 1000 /\ g_sampleInterval = 1000 /\ RequestedDelay = 200000

C18_ArmIntervalNonZero ==
    [][HandlerReturns /\ ArmIssued(calls') => g_sampleInterval' # 0]_vars

\* C19: an arm or re-arm sequence sends again every configuration setting
\* whose last device call failed: the calls of a handler that arms include
\* the setter of each setting still unapplied.
C19_RearmReapplies ==
    [][HandlerReturns /\ ArmIssued(calls')
       => \A n \in unapplied' :
             \E i \in DOMAIN calls' : calls'[i][1] = n]_vars

(***************************************************************************)
(* Parser                                                                  *)
(***************************************************************************)
\* position of the first ':' of l, 0 when it has none
FirstColon(l) ==
    IF \E k \in 1..Len(l) : l[k] = ":"
    THEN CHOOSE k \in 1..Len(l) :
            l[k] = ":" /\ \A i \in 1..(k - 1) : l[i] # ":"
    ELSE 0

\* C20: the subject is the text left of the first ':' (empty when the line
\* has no ':' or nothing precedes it), a later ':' is ordinary text, and no
\* empty string is placed in args.
C20_SplitOnFirstColon ==
    pc = "parsed" =>
        LET k == FirstColon(line)
        IN  /\ k = 0 => out.subject = <<>>
            /\ k > 0 /\ (\A i \in 1..(k - 1) : IsPlain(line[i]))
               => out.subject = SubSeq(line, 1, k - 1)
            /\ line = T_DIR_RISING => out.cmd = T_DIR
            /\ \A i \in DOMAIN out.args : out.args[i] # <<>>

====
